---------------------------- MODULE Spec2Model ----------------------------
(***************************************************************************)
(* Asset supply chain of kops:                                             *)
(*   - the containerd version resolver (upup/pkg/fi/cloudup/containerd.go) *)
(*   - the verified fetcher of the node bootstrap script (download-or-bust)*)
(*                                                                         *)
(* Strings of the program are sequences of fragments: a version string is  *)
(* a sequence of one-character strings, a URL or a hash is a sequence of   *)
(* fragments, and the empty string is << >>.  Error values are named after *)
(* the text of the fmt.Errorf message that produces them.                  *)
(***************************************************************************)
EXTENDS Integers, Sequences, FiniteSets, TLC

VARIABLES
    \* ---- resolver (control side) ----
    arch,       \* architectures.Architecture passed to the resolver
    cluster,    \* c.Spec.Containerd: [set, Version, Packages]
    rpc,        \* "ready" | "done"
    called,     \* which entry point ran: "" | "findContainerdAsset" | "findContainerdVersionUrlHash"
    result,     \* [u, h, err, calls] returned by the entry point
    \* ---- fetcher (node side) ----
    file,       \* content of the target path: "absent" | "partial" | "corrupted" | "correct"
    urls,       \* behaviour of each mirror of the URL list
    fpc,        \* position of download-or-bust
    ui,         \* index of the current url
    ci,         \* index of the current command (strategy)
    entryFile,  \* content of the target path when download-or-bust was entered
    lastValidate, \* outcome of the last validate-hash: "none" | "ok" | "mismatch"
    transfers,  \* sequence of <<url index, command index>> attempted in this invocation
    sleeps,     \* number of backoff sleeps of this invocation
    passFails,  \* failed or mismatched attempts of the current pass
    deletes,    \* number of rm -f of this invocation
    source,     \* url index the present file was fetched from (0: not fetched)
    invocations, \* number of invocations of download-or-bust so far
    \* ---- download-release (node side) ----
    uname,      \* output of uname -m on the host
    boot,       \* position of download-release
    NODEUP_URL, \* the url list selected for the host architecture
    NODEUP_HASH, \* the hash selected for the host architecture
    executable  \* whether the target path has the x bit

rvars == <<arch, cluster, rpc, called, result>>
fvars == <<file, urls, fpc, ui, ci, entryFile, lastValidate, transfers, sleeps,
           passFails, deletes, source, invocations>>
bvars == <<uname, boot, NODEUP_URL, NODEUP_HASH, executable>>
vars == <<rvars, fvars, bvars>>

(***************************************************************************)
(* Bounds of the model                                                     *)
(***************************************************************************)
\* longest generated version string (strings over Alphabet)
MaxLen == 3
\* longest URL list given to download-or-bust
MaxUrls == 3
\* backoff sleeps after which the model stops following the retry loop
MaxPasses == 2
\* invocations of download-or-bust on the same node
MaxInvocations == 2

(***************************************************************************)
(* Strings                                                                 *)
(***************************************************************************)
Empty == << >>

DigitVal ==
    ("0" :> 0) @@ ("1" :> 1) @@ ("2" :> 2) @@ ("3" :> 3) @@ ("4" :> 4) @@
    ("5" :> 5) @@ ("6" :> 6) @@ ("7" :> 7) @@ ("8" :> 8) @@ ("9" :> 9)

IsDigit(c) == c \in DOMAIN DigitVal

\* strings.TrimSpace
RECURSIVE TrimSpaceLeft(_)
TrimSpaceLeft(s) ==
    IF s # Empty /\ Head(s) = " " THEN TrimSpaceLeft(Tail(s)) ELSE s

RECURSIVE TrimSpaceRight(_)
TrimSpaceRight(s) ==
    IF s # Empty /\ s[Len(s)] = " " THEN TrimSpaceRight(SubSeq(s, 1, Len(s) - 1)) ELSE s

TrimSpace(s) == TrimSpaceRight(TrimSpaceLeft(s))

\* strings.TrimPrefix(s, "v")
TrimPrefixV(s) == IF s # Empty /\ Head(s) = "v" THEN Tail(s) ELSE s

\* strings.TrimLeft(p, "0")
RECURSIVE TrimLeftZero(_)
TrimLeftZero(p) ==
    IF p # Empty /\ Head(p) = "0" THEN TrimLeftZero(Tail(p)) ELSE p

\* index of the first "." of s, 0 when there is none
RECURSIVE IndexDotFrom(_, _)
IndexDotFrom(s, i) ==
    IF i > Len(s) THEN 0
    ELSE IF s[i] = "." THEN i
    ELSE IndexDotFrom(s, i + 1)

\* strings.SplitN(s, ".", n)
RECURSIVE SplitN(_, _)
SplitN(s, n) ==
    LET i == IndexDotFrom(s, 1) IN
    IF n <= 1 \/ i = 0 THEN <<s>>
    ELSE <<SubSeq(s, 1, i - 1)>> \o SplitN(SubSeq(s, i + 1, Len(s)), n - 1)

\* strings.Join(parts, ".")
RECURSIVE Join(_)
Join(parts) ==
    IF parts = << >> THEN Empty
    ELSE IF Len(parts) = 1 THEN parts[1]
    ELSE parts[1] \o <<".">> \o Join(Tail(parts))

\* fmt.Sprintf with %s verbs only; format is a sequence of fragments
RECURSIVE Sprintf(_, _)
Sprintf(format, args) ==
    IF format = << >> THEN Empty
    ELSE IF Head(format) = "%s"
         THEN (IF args = << >> THEN <<"%!s(MISSING)">> ELSE Head(args))
              \o Sprintf(Tail(format), IF args = << >> THEN args ELSE Tail(args))
         ELSE <<Head(format)>> \o Sprintf(Tail(format), args)

(***************************************************************************)
(* github.com/blang/semver/v4 (without pre-release and build metadata:     *)
(* the characters + and - are outside the alphabet of the model)           *)
(***************************************************************************)
containsOnlyNumbers(s) == \A i \in 1..Len(s) : IsDigit(s[i])

hasLeadingZeroes(s) == Len(s) > 1 /\ s[1] = "0"

RECURSIVE DecimalValue(_)
DecimalValue(s) ==
    IF s = Empty THEN 0
    ELSE 10 * DecimalValue(SubSeq(s, 1, Len(s) - 1)) + DigitVal[s[Len(s)]]

\* strconv.ParseUint(s, 10, 64) succeeds
ParseUintOk(s) == s # Empty /\ containsOnlyNumbers(s)

NumberOk(s) == containsOnlyNumbers(s) /\ ~hasLeadingZeroes(s) /\ ParseUintOk(s)

NoVersion == [ok |-> FALSE, Major |-> 0, Minor |-> 0, Patch |-> 0]

\* semver.Parse
Parse(s) ==
    LET parts == SplitN(s, 3) IN
    IF Len(s) = 0 THEN NoVersion
    ELSE IF Len(parts) # 3 THEN NoVersion
    ELSE IF ~NumberOk(parts[1]) THEN NoVersion
    ELSE IF ~NumberOk(parts[2]) THEN NoVersion
    ELSE IF ~NumberOk(parts[3]) THEN NoVersion
    ELSE [ok |-> TRUE, Major |-> DecimalValue(parts[1]),
          Minor |-> DecimalValue(parts[2]), Patch |-> DecimalValue(parts[3])]

\* the leading-zero removal of ParseTolerant, for one part
StripPart(p) ==
    IF Len(p) > 1
    THEN LET q == TrimLeftZero(p) IN
         IF Len(q) = 0 \/ ~IsDigit(q[1]) THEN <<"0">> \o q ELSE q
    ELSE p

RECURSIVE FillUp(_)
FillUp(parts) == IF Len(parts) < 3 THEN FillUp(Append(parts, <<"0">>)) ELSE parts

\* semver.ParseTolerant
ParseTolerant(s) ==
    LET t == TrimPrefixV(TrimSpace(s))
        parts == SplitN(t, 3)
        stripped == [i \in 1..Len(parts) |-> StripPart(parts[i])]
    IN Parse(Join(FillUp(stripped)))

\* Version.Compare
Compare(a, b) ==
    IF a.Major # b.Major THEN (IF a.Major > b.Major THEN 1 ELSE -1)
    ELSE IF a.Minor # b.Minor THEN (IF a.Minor > b.Minor THEN 1 ELSE -1)
    ELSE IF a.Patch # b.Patch THEN (IF a.Patch > b.Patch THEN 1 ELSE -1)
    ELSE 0

LT(a, b) == Compare(a, b) = -1
GTE(a, b) == Compare(a, b) >= 0

(***************************************************************************)
(* Static tables.  A Go map[string]string is a set of <<key, value>> pairs *)
(* and a lookup of a missing key gives the empty string.                   *)
(***************************************************************************)
\* faulty variant: keys are compared by the version they parse to
Lookup_Normalized(table, key) ==
    LET same(e) == ParseTolerant(key).ok /\ ParseTolerant(e[1]) = ParseTolerant(key) IN
    IF \E e \in table : same(e)
    THEN (CHOOSE e \in table : same(e))[2]
    ELSE Empty

Lookup(table, key) ==
    IF \E e \in table : e[1] = key
    THEN (CHOOSE e \in table : e[1] = key)[2]
    ELSE Empty

Keys(table) == {e[1] : e \in table}

findAllContainerdHashesAmd64 ==
    {
      <<<<"1", ".", "3", ".", "4">>, <<"4616971c3ad21c24f2f2320fa1c085577a91032a068dd56a41c7c4b71a458087">>>>,
      <<<<"1", ".", "3", ".", "9">>, <<"96663699e0f888fbf232ae6629a367aa7421f6b95044e7ee5d4d4e02841fac75">>>>,
      <<<<"1", ".", "3", ".", "1", "0">>, <<"69e23e49cdf1232d475a77bf7ecd7145ff4a80295154e190125c4d8a20e241da">>>>,
      <<<<"1", ".", "4", ".", "0">>, <<"b379f29417efd583f77e095173d4d0bd6bb001f0081b2a63d152ee7aef653ce1">>>>,
      <<<<"1", ".", "4", ".", "1">>, <<"757efb93a4f3161efc447a943317503d8a7ded5cb4cc0cba3f3318d7ce1542ed">>>>,
      <<<<"1", ".", "4", ".", "2">>, <<"9d0fd5f4d2bc58b345728432b7daac75fc99c1da91afa4f41e6103f618e74012">>>>,
      <<<<"1", ".", "4", ".", "3">>, <<"2697a342e3477c211ab48313e259fd7e32ad1f5ded19320e6a559f50a82bff3d">>>>,
      <<<<"1", ".", "4", ".", "4">>, <<"96641849cb78a0a119223a427dfdc1ade88412ef791a14193212c8c8e29d447b">>>>,
      <<<<"1", ".", "4", ".", "5">>, <<"f8155278fd256526ca9804219e1ee46f5db11c6ddf455086b04c0887c868822a">>>>,
      <<<<"1", ".", "4", ".", "6">>, <<"6ae4763598c9583f8b50605f19d6c7e9ef93c216706465e73dfc84ee6b63a238">>>>,
      <<<<"1", ".", "4", ".", "7">>, <<"daa14638344fe0772f645e190e4d8eb9549b52743364cb8000521490f9e410b8">>>>,
      <<<<"1", ".", "4", ".", "8">>, <<"96e815c9ab664a02dd5be35e31d15890ea6bef04dfaa39f99f14676c3d6561e8">>>>,
      <<<<"1", ".", "4", ".", "9">>, <<"9911479f86012d6eab7e0f532da8f807a8b0f555ee09ef89367d8c31243073bb">>>>,
      <<<<"1", ".", "5", ".", "0">>, <<"aee7b553ab88842fdafe43955757abe746b8e9995b2be55c603f0a236186ff9b">>>>,
      <<<<"1", ".", "5", ".", "1">>, <<"2fd97916b24396c13849cfcd89805170e1ef0265a2f7fce8e74ae044a6a6a169">>>>,
      <<<<"1", ".", "5", ".", "2">>, <<"e7adbb6c6f6e67639460579a8aa991e9ce4de2062ed36d3261e6e4865574d947">>>>,
      <<<<"1", ".", "5", ".", "3">>, <<"32a9bf1b7ab2adbd9d2a16b17bf1aa6e61592938655adfb5114c40d527aa9be7">>>>,
      <<<<"1", ".", "5", ".", "4">>, <<"591e4e087ea2f5007e6c64deb382df58d419b7b6922eab45a1923d843d57615f">>>>,
      <<<<"1", ".", "5", ".", "5">>, <<"45f02cfc65db47cf088c95555906e1dcba7baf5a3fbad3d947dd6b9af476a144">>>>
    }

findAllContainerdDockerMappings ==
    {
      <<<<"1", ".", "3", ".", "7">>, <<"1", "9", ".", "0", "3", ".", "1", "3">>>>,
      <<<<"1", ".", "3", ".", "9">>, <<"1", "9", ".", "0", "3", ".", "1", "4">>>>,
      <<<<"1", ".", "4", ".", "3">>, <<"2", "0", ".", "1", "0", ".", "0">>>>,
      <<<<"1", ".", "4", ".", "4">>, <<"2", "0", ".", "1", "0", ".", "6">>>>,
      <<<<"1", ".", "4", ".", "6">>, <<"2", "0", ".", "1", "0", ".", "7">>>>
    }

containerdVersionUrlAmd64 ==
    <<"https://github.com/containerd/containerd/releases/download/", "v", "%s",
      "/cri-containerd-cni-", "%s", "-linux-amd64.tar.gz">>

containerdLegacyUrlAmd64 ==
    <<"https://storage.googleapis.com/cri-containerd-release/cri-containerd-", "%s",
      ".linux-amd64.tar.gz">>

containerdFallbackVersion == <<"1", ".", "4", ".", "6">>

\* semver.MustParse("1.3.4"): the minimum supported containerd version
MinSupportedVersion == Parse(<<"1", ".", "3", ".", "4">>)

\* faulty variant: the threshold the comment on the templates suggests (v1.4.x+)
UrlTemplateThreshold_v14 == Parse(<<"1", ".", "4", ".", "0">>)

\* semver.MustParse("1.3.8"): first version published with the current URL template
UrlTemplateThreshold == Parse(<<"1", ".", "3", ".", "8">>)

ArchitectureAmd64 == "amd64"
ArchitectureArm64 == "arm64"

(***************************************************************************)
(* Docker packages (docker.go of the same Go package)                      *)
(***************************************************************************)
dockerVersionUrlAmd64 ==
    <<"https://download.docker.com/linux/static/stable/x86_64/docker-", "%s", ".tgz">>

dockerVersionUrlArm64 ==
    <<"https://download.docker.com/linux/static/stable/aarch64/docker-", "%s", ".tgz">>

\* apart from 20.10.7 for aarch64 the digests are stand-ins of the shape of a digest
findAllDockerHashesArm64 ==
    {
      <<<<"1", "9", ".", "0", "3", ".", "1", "3">>, <<"d0c0e4a641903130000000000000000000000000000000000000000000000000">>>>,
      <<<<"1", "9", ".", "0", "3", ".", "1", "4">>, <<"d0c0e4a641903140000000000000000000000000000000000000000000000000">>>>,
      <<<<"2", "0", ".", "1", "0", ".", "0">>, <<"d0c0e4a642010000000000000000000000000000000000000000000000000000">>>>,
      <<<<"2", "0", ".", "1", "0", ".", "6">>, <<"d0c0e4a642010600000000000000000000000000000000000000000000000000">>>>,
      <<<<"2", "0", ".", "1", "0", ".", "7">>, <<"be8c9a5a06ebec8fb1d36e867cd00fb5777746a9812a0cae2966778ff899c525">>>>
    }

findAllDockerHashesAmd64 ==
    {
      <<<<"1", "9", ".", "0", "3", ".", "1", "3">>, <<"d0c0e40861903130000000000000000000000000000000000000000000000000">>>>,
      <<<<"1", "9", ".", "0", "3", ".", "1", "4">>, <<"d0c0e40861903140000000000000000000000000000000000000000000000000">>>>,
      <<<<"2", "0", ".", "1", "0", ".", "0">>, <<"d0c0e40862010000000000000000000000000000000000000000000000000000">>>>,
      <<<<"2", "0", ".", "1", "0", ".", "6">>, <<"d0c0e40862010600000000000000000000000000000000000000000000000000">>>>,
      <<<<"2", "0", ".", "1", "0", ".", "7">>, <<"d0c0e40862010700000000000000000000000000000000000000000000000000">>>>
    }

\* dockerVersionUrl / dockerVersionHash resolution of the bundler component
findDockerVersionUrl(a, version) ==
    IF ~ParseTolerant(version).ok
    THEN [u |-> Empty, err |-> "unable to parse version string"]
    ELSE IF a = ArchitectureAmd64
    THEN [u |-> Sprintf(dockerVersionUrlAmd64, <<version>>), err |-> ""]
    ELSE IF a = ArchitectureArm64
    THEN IF Lookup(findAllDockerHashesArm64, version) # Empty
         THEN [u |-> Sprintf(dockerVersionUrlArm64, <<version>>), err |-> ""]
         ELSE [u |-> Empty, err |-> "unknown url for Docker version"]
    ELSE [u |-> Empty, err |-> "unknown arch"]

findDockerVersionHash(a, version) ==
    LET h == IF a = ArchitectureAmd64 THEN Lookup(findAllDockerHashesAmd64, version)
             ELSE Lookup(findAllDockerHashesArm64, version)
    IN IF ~ParseTolerant(version).ok
       THEN [h |-> Empty, err |-> "unable to parse version string"]
       ELSE IF a \notin {ArchitectureAmd64, ArchitectureArm64}
       THEN [h |-> Empty, err |-> "unknown arch"]
       ELSE IF h = Empty
       THEN [h |-> Empty, err |-> "unknown hash for Docker version"]
       ELSE [h |-> h, err |-> ""]

(***************************************************************************)
(* The containerd resolver.  Every function returns, with its values, the  *)
(* sequence of the lookups and parses it performed (calls).                *)
(***************************************************************************)
Failure(e, c) == [u |-> Empty, h |-> Empty, err |-> e, calls |-> c]

\* faulty variant: the arm64 branch ignores the exact-version mapping
Arm64DockerVersion_AlwaysDefault(version) ==
    Lookup(findAllContainerdDockerMappings, containerdFallbackVersion)

\* the docker version the arm64 branch substitutes for a containerd version that
\* has an amd64 hash: its mapped docker version, else that of the fallback version
Arm64DockerVersion(version) ==
    IF Lookup(findAllContainerdDockerMappings, version) # Empty
    THEN Lookup(findAllContainerdDockerMappings, version)
    ELSE Lookup(findAllContainerdDockerMappings, containerdFallbackVersion)

Arm64Calls(version) ==
    <<"findAllContainerdHashesAmd64">> \o
    (IF Lookup(findAllContainerdHashesAmd64, version) # Empty
     THEN <<"findAllContainerdDockerMappings">> ELSE << >>)

findContainerdVersionUrl(a, version) ==
    LET sv == ParseTolerant(version)
        parsed == <<"semver.ParseTolerant">>
        u == IF a = ArchitectureAmd64
             THEN IF GTE(sv, UrlTemplateThreshold)
                  THEN Sprintf(containerdVersionUrlAmd64, <<version, version>>)
                  ELSE Sprintf(containerdLegacyUrlAmd64, <<version>>)
             ELSE IF Lookup(findAllContainerdHashesAmd64, version) # Empty
                  THEN Sprintf(dockerVersionUrlArm64, <<Arm64DockerVersion(version)>>)
                  ELSE Empty
        c == IF a = ArchitectureArm64 THEN parsed \o Arm64Calls(version) ELSE parsed
    IN IF ~sv.ok THEN Failure("unable to parse version string", parsed)
       ELSE IF LT(sv, MinSupportedVersion)
       THEN Failure("unsupported legacy containerd version", parsed)
       ELSE IF a \notin {ArchitectureAmd64, ArchitectureArm64}
       THEN Failure("unknown arch", parsed)
       ELSE IF u = Empty THEN Failure("unknown url for containerd version", c)
       ELSE [u |-> u, h |-> Empty, err |-> "", calls |-> c]

\* faulty variant: on arm64 the hash is always that of the docker version the
\* fallback containerd version maps to
findContainerdVersionHash_AlwaysDefault(a, version) ==
    LET sv == ParseTolerant(version)
        parsed == <<"semver.ParseTolerant">>
        h == IF a = ArchitectureAmd64
             THEN Lookup(findAllContainerdHashesAmd64, version)
             ELSE IF Lookup(findAllContainerdHashesAmd64, version) # Empty
                  THEN Lookup(findAllDockerHashesArm64,
                              Lookup(findAllContainerdDockerMappings, containerdFallbackVersion))
                  ELSE Empty
        c == IF a = ArchitectureArm64 THEN parsed \o Arm64Calls(version)
             ELSE parsed \o <<"findAllContainerdHashesAmd64">>
    IN IF ~sv.ok THEN Failure("unable to parse version string", parsed)
       ELSE IF LT(sv, MinSupportedVersion)
       THEN Failure("unsupported legacy containerd version", parsed)
       ELSE IF a \notin {ArchitectureAmd64, ArchitectureArm64}
       THEN Failure("unknown arch", parsed)
       ELSE IF h = Empty THEN Failure("unknown hash for containerd version", c)
       ELSE [u |-> Empty, h |-> h, err |-> "", calls |-> c]

findContainerdVersionHash(a, version) ==
    LET sv == ParseTolerant(version)
        parsed == <<"semver.ParseTolerant">>
        h == IF a = ArchitectureAmd64
             THEN Lookup(findAllContainerdHashesAmd64, version)
             ELSE IF Lookup(findAllContainerdHashesAmd64, version) # Empty
                  THEN Lookup(findAllDockerHashesArm64, Arm64DockerVersion(version))
                  ELSE Empty
        c == IF a = ArchitectureArm64 THEN parsed \o Arm64Calls(version)
             ELSE parsed \o <<"findAllContainerdHashesAmd64">>
    IN IF ~sv.ok THEN Failure("unable to parse version string", parsed)
       ELSE IF LT(sv, MinSupportedVersion)
       THEN Failure("unsupported legacy containerd version", parsed)
       ELSE IF a \notin {ArchitectureAmd64, ArchitectureArm64}
       THEN Failure("unknown arch", parsed)
       ELSE IF h = Empty THEN Failure("unknown hash for containerd version", c)
       ELSE [u |-> Empty, h |-> h, err |-> "", calls |-> c]

findContainerdVersionUrlHash(a, version) ==
    LET native == <<"findAllContainerdHashesAmd64">>
        mapped == native \o <<"findAllContainerdDockerMappings">>
        dv == Lookup(findAllContainerdDockerMappings, version)
        ur == findContainerdVersionUrl(a, version)
        hr == findContainerdVersionHash(a, version)
        du == findDockerVersionUrl(a, dv)
        dh == findDockerVersionHash(a, dv)
    IN IF Lookup(findAllContainerdHashesAmd64, version) # Empty
       THEN IF ur.err # "" THEN Failure(ur.err, native \o ur.calls)
            ELSE IF hr.err # "" THEN Failure(hr.err, native \o ur.calls \o hr.calls)
            ELSE [u |-> ur.u, h |-> hr.h, err |-> "",
                  calls |-> native \o ur.calls \o hr.calls]
       ELSE IF dv # Empty
       THEN IF du.err # "" THEN Failure(du.err, mapped \o <<"findDockerVersionUrl">>)
            ELSE IF dh.err # ""
            THEN Failure(dh.err, mapped \o <<"findDockerVersionUrl", "findDockerVersionHash">>)
            ELSE [u |-> du.u, h |-> dh.h, err |-> "",
                  calls |-> mapped \o <<"findDockerVersionUrl", "findDockerVersionHash">>]
       ELSE Failure("unknown url and hash for containerd version", mapped)

\* url.Parse, hashing.FromString and the asset builder's remapping (no file repository)
findAssetsUrlHash(assetUrl, assetHash) ==
    [u |-> assetUrl, h |-> assetHash, err |-> "", calls |-> <<"findAssetsUrlHash">>]

\* a *string of the cluster spec: nil, or a pointer to a string
NilString == [set |-> FALSE, val |-> Empty]
StringPtr(s) == [set |-> TRUE, val |-> s]

\* fi.StringValue
StringValue(p) == IF p.set THEN p.val ELSE Empty

\* faulty variant: every architecture other than amd64 takes the arm64 override
findContainerdAsset_ElseArm64(c, a) ==
    LET pk == c.Packages
        version == StringValue(c.Version)
        r == findContainerdVersionUrlHash(a, version)
    IN IF ~c.set THEN Failure("unable to find containerd config", << >>)
       ELSE IF pk.set /\ a = ArchitectureAmd64 /\ pk.UrlAmd64.set /\ pk.HashAmd64.set
       THEN findAssetsUrlHash(StringValue(pk.UrlAmd64), StringValue(pk.HashAmd64))
       ELSE IF pk.set /\ a # ArchitectureAmd64 /\ pk.UrlArm64.set /\ pk.HashArm64.set
       THEN findAssetsUrlHash(StringValue(pk.UrlArm64), StringValue(pk.HashArm64))
       ELSE IF version = Empty THEN Failure("unable to find containerd version", << >>)
       ELSE IF r.err # "" THEN Failure(r.err, r.calls)
       ELSE [findAssetsUrlHash(r.u, r.h) EXCEPT !.calls = r.calls \o <<"findAssetsUrlHash">>]

\* faulty variant: the version is required before the override is looked at
findContainerdAsset_VersionFirst(c, a) ==
    LET pk == c.Packages
        version == StringValue(c.Version)
        r == findContainerdVersionUrlHash(a, version)
    IN IF ~c.set THEN Failure("unable to find containerd config", << >>)
       ELSE IF version = Empty THEN Failure("unable to find containerd version", << >>)
       ELSE IF pk.set /\ a = ArchitectureAmd64 /\ pk.UrlAmd64.set /\ pk.HashAmd64.set
       THEN findAssetsUrlHash(StringValue(pk.UrlAmd64), StringValue(pk.HashAmd64))
       ELSE IF pk.set /\ a = ArchitectureArm64 /\ pk.UrlArm64.set /\ pk.HashArm64.set
       THEN findAssetsUrlHash(StringValue(pk.UrlArm64), StringValue(pk.HashArm64))
       ELSE IF r.err # "" THEN Failure(r.err, r.calls)
       ELSE [findAssetsUrlHash(r.u, r.h) EXCEPT !.calls = r.calls \o <<"findAssetsUrlHash">>]

findContainerdAsset(c, a) ==
    LET pk == c.Packages
        version == StringValue(c.Version)
        r == findContainerdVersionUrlHash(a, version)
        viaAssets(x) == [findAssetsUrlHash(x.u, x.h) EXCEPT
                           !.calls = x.calls \o <<"findAssetsUrlHash">>]
    IN IF ~c.set THEN Failure("unable to find containerd config", << >>)
       ELSE IF pk.set /\ a = ArchitectureAmd64 /\ pk.UrlAmd64.set /\ pk.HashAmd64.set
       THEN findAssetsUrlHash(StringValue(pk.UrlAmd64), StringValue(pk.HashAmd64))
       ELSE IF pk.set /\ a = ArchitectureArm64 /\ pk.UrlArm64.set /\ pk.HashArm64.set
       THEN findAssetsUrlHash(StringValue(pk.UrlArm64), StringValue(pk.HashArm64))
       ELSE IF version = Empty THEN Failure("unable to find containerd version", << >>)
       ELSE IF r.err # "" THEN Failure(r.err, r.calls)
       ELSE viaAssets(r)

(***************************************************************************)
(* Inputs of the resolver                                                  *)
(***************************************************************************)
Alphabet == {"1", "3", "4", ".", "v"}

\* every string over Alphabet of length at most MaxLen
GeneratedVersions == UNION {[1..n -> Alphabet] : n \in 0..MaxLen}

SampleVersions ==
    { <<"v", "1", ".", "4", ".", "9">>,
      <<" ", "1", ".", "4", ".", "9">>,
      <<"0", "1", ".", "4", ".", "9">>,
      <<"1", ".", "4", ".", "9", ".", "1">>,
      <<"1", ".", "4", ".", "1", "0">>,
      <<"1", ".", "5", ".", "6">>,
      <<"1", ".", "6", ".", "0">>,
      <<"1", ".", "3", ".", "5">>,
      <<"1", ".", "3", ".", "8">>,
      <<"1", ".", "3", ".", "3">>,
      <<"v", "1", ".", "3", ".", "3">>,
      <<"1", ".", "2", ".", "4">>,
      <<"0", ".", "9", ".", "9">>,
      <<"1", ".", "4", ".", "x">>,
      <<"l", "a", "t", "e", "s", "t">> }

Versions ==
    Keys(findAllContainerdHashesAmd64) \cup Keys(findAllContainerdDockerMappings)
        \cup SampleVersions \cup GeneratedVersions

Architectures == {ArchitectureAmd64, ArchitectureArm64, "riscv64"}

OverrideUrlAmd64 == <<"https://mirror.example.com/containerd-amd64.tar.gz">>
OverrideUrlArm64 == <<"https://mirror.example.com/containerd-arm64.tar.gz">>
OverrideHashAmd64 == <<"aaaaaaaaaaaaaaaaaaaaaaaaaaaaaaaaaaaaaaaaaaaaaaaaaaaaaaaaaaaaaaaa">>
OverrideHashArm64 == <<"bbbbbbbbbbbbbbbbbbbbbbbbbbbbbbbbbbbbbbbbbbbbbbbbbbbbbbbbbbbbbbbb">>

Pointers(s) == {NilString, StringPtr(Empty), StringPtr(s)}

NoPackages ==
    [set |-> FALSE, UrlAmd64 |-> NilString, HashAmd64 |-> NilString,
     UrlArm64 |-> NilString, HashArm64 |-> NilString]

\* kops.PackagesConfig: nil, or any combination of its four *string fields
PackagesConfigs ==
    {NoPackages} \cup
    [set : {TRUE}, UrlAmd64 : Pointers(OverrideUrlAmd64), HashAmd64 : Pointers(OverrideHashAmd64),
     UrlArm64 : Pointers(OverrideUrlArm64), HashArm64 : Pointers(OverrideHashArm64)]

NoContainerdConfig == [set |-> FALSE, Version |-> NilString, Packages |-> NoPackages]

\* c.Spec.Containerd: nil, or a config with a version pointer and packages
ContainerdConfigs ==
    {NoContainerdConfig} \cup
    [set : {TRUE}, Version : {NilString} \cup {StringPtr(v) : v \in Versions},
     Packages : PackagesConfigs]

NoResult == [u |-> Empty, h |-> Empty, err |-> "", calls |-> << >>]

(***************************************************************************)
(* The variables of the node bootstrap script                              *)
(***************************************************************************)
NODEUP_URL_AMD64 ==
    <<"https://artifacts.k8s.io/binaries/kops/1.21.0-alpha.1/linux/amd64/nodeup",
      "https://github.com/kubernetes/kops/releases/download/v1.21.0-alpha.1/nodeup-linux-amd64">>

NODEUP_HASH_AMD64 == "585fbda0f0a43184656b4bfc0cc5f0c0b85612faf43b8816acca1f99d422c924"

NODEUP_URL_ARM64 ==
    <<"https://artifacts.k8s.io/binaries/kops/1.21.0-alpha.1/linux/arm64/nodeup",
      "https://github.com/kubernetes/kops/releases/download/v1.21.0-alpha.1/nodeup-linux-arm64">>

NODEUP_HASH_ARM64 == "7603675379699105a9b9915ff97718ea99b1bbb01a4c184e2f827c8a96e8e865"

\* download-release is not running: download-or-bust is exercised on its own with
\* the variables of an amd64 host
BootIdle ==
    /\ uname = "x86_64"
    /\ boot = "none"
    /\ NODEUP_URL = NODEUP_URL_AMD64
    /\ NODEUP_HASH = NODEUP_HASH_AMD64
    /\ executable = FALSE

(***************************************************************************)
(* Fetcher state before download-or-bust is entered                        *)
(***************************************************************************)
FetcherIdle ==
    /\ file = "absent"
    /\ urls = <<"good">>
    /\ fpc = "idle"
    /\ ui = 1
    /\ ci = 1
    /\ entryFile = "absent"
    /\ lastValidate = "none"
    /\ transfers = << >>
    /\ sleeps = 0
    /\ passFails = 0
    /\ deletes = 0
    /\ source = 0
    /\ invocations = 0

(***************************************************************************)
(* Resolver specification: the inputs are drawn in Init and each entry     *)
(* point is applied to them.                                               *)
(***************************************************************************)
Init ==
    /\ arch \in Architectures
    /\ cluster \in ContainerdConfigs
    /\ rpc = "ready"
    /\ called = ""
    /\ result = NoResult
    /\ FetcherIdle
    /\ BootIdle

\* the version string the cluster spec requests
RequestedVersion == StringValue(cluster.Version)

CallFindContainerdAsset ==
    /\ rpc = "ready"
    /\ result' = findContainerdAsset(cluster, arch)
    /\ called' = "findContainerdAsset"
    /\ rpc' = "done"
    /\ UNCHANGED <<arch, cluster, fvars, bvars>>

CallFindContainerdVersionUrlHash ==
    /\ rpc = "ready"
    /\ result' = findContainerdVersionUrlHash(arch, RequestedVersion)
    /\ called' = "findContainerdVersionUrlHash"
    /\ rpc' = "done"
    /\ UNCHANGED <<arch, cluster, fvars, bvars>>

Next == CallFindContainerdAsset \/ CallFindContainerdVersionUrlHash

Spec == Init /\ [][Next]_vars

(***************************************************************************)
(* Properties of the resolver                                              *)
(***************************************************************************)
V(a, b, c) == <<a, ".", b, ".", c>>

\* the override of the cluster spec carries a URL and a hash for architecture a
OverrideUrl(a) ==
    IF a = ArchitectureAmd64 THEN cluster.Packages.UrlAmd64 ELSE cluster.Packages.UrlArm64

OverrideHash(a) ==
    IF a = ArchitectureAmd64 THEN cluster.Packages.HashAmd64 ELSE cluster.Packages.HashArm64

OverrideComplete ==
    /\ cluster.set /\ cluster.Packages.set
    /\ arch \in {ArchitectureAmd64, ArchitectureArm64}
    /\ OverrideUrl(arch).set /\ OverrideUrl(arch).val # Empty
    /\ OverrideHash(arch).set /\ OverrideHash(arch).val # Empty

\* a resolution that ran with no override at all
ComputedDone ==
    /\ rpc = "done"
    /\ \/ called = "findContainerdVersionUrlHash"
       \/ called = "findContainerdAsset" /\ cluster.set /\ ~cluster.Packages.set
             /\ RequestedVersion # Empty

Succeeded == result.err = ""

\* C1: with an override that carries a URL and a hash for the requested
\* architecture, findContainerdAsset returns exactly that URL and hash, whatever
\* the version string is, and performs no parse and no table lookup.
C1_OverridePrecedence ==
    (rpc = "done" /\ called = "findContainerdAsset" /\ OverrideComplete) =>
        /\ Succeeded
        /\ result.u = OverrideUrl(arch).val
        /\ result.h = OverrideHash(arch).val
        /\ result.calls = <<"findAssetsUrlHash">>

\* C1 witness: an override wins over the native entry of 1.4.9 on amd64 ...
C1_Witness ==
    /\ rpc = "done" /\ called = "findContainerdAsset" /\ OverrideComplete
    /\ arch = ArchitectureAmd64
    /\ RequestedVersion = V("1", "4", "9")
    /\ result.u = OverrideUrlAmd64 /\ result.h = OverrideHashAmd64

DockerUrlArm64Prefix == "https://download.docker.com/linux/static/stable/aarch64/docker-"

InBothTables ==
    RequestedVersion \in
        Keys(findAllContainerdHashesAmd64) \cap Keys(findAllContainerdDockerMappings)

\* C3: for a version in the native amd64 table and in the docker mapping, amd64
\* gets the native containerd URL and hash (never a docker package) and arm64
\* gets the arm64 docker URL and hash of the mapped docker version (1.4.3 gives
\* 20.10.0), never those of the default fallback version.
C3_PrecedenceOrder ==
    (ComputedDone /\ InBothTables) =>
        /\ arch = ArchitectureAmd64 =>
             /\ Succeeded
             /\ Head(result.u) \in {Head(containerdVersionUrlAmd64), Head(containerdLegacyUrlAmd64)}
             /\ <<RequestedVersion, result.h>> \in findAllContainerdHashesAmd64
        /\ arch = ArchitectureArm64 =>
             /\ Succeeded
             /\ \E m \in findAllContainerdDockerMappings :
                   /\ m[1] = RequestedVersion
                   /\ result.u = <<DockerUrlArm64Prefix>> \o m[2] \o <<".tgz">>
                   /\ <<m[2], result.h>> \in findAllDockerHashesArm64
             /\ RequestedVersion = V("1", "4", "3") =>
                   result.u = <<DockerUrlArm64Prefix, "2", "0", ".", "1", "0", ".", "0", ".tgz">>

\* C3 witness: 1.4.3 resolved for arm64 through its mapped docker version
C3_Witness ==
    /\ ComputedDone /\ arch = ArchitectureArm64 /\ Succeeded
    /\ RequestedVersion = V("1", "4", "3")
    /\ result.u = <<DockerUrlArm64Prefix, "2", "0", ".", "1", "0", ".", "0", ".tgz">>

AtOrAboveMinimum(sv) ==
    sv.ok /\ (sv.Major > 1 \/ (sv.Major = 1 /\ (sv.Minor > 3 \/ (sv.Minor = 3 /\ sv.Patch >= 4))))

DefaultFallbackUrlArm64 == <<DockerUrlArm64Prefix, "2", "0", ".", "1", "0", ".", "7", ".tgz">>
DefaultFallbackHashArm64 == <<"be8c9a5a06ebec8fb1d36e867cd00fb5777746a9812a0cae2966778ff899c525">>

\* C4: on arm64, every version at or above the minimum that has no entry in the
\* docker mapping resolves to the package of the default fallback version
\* (1.4.6, docker 20.10.7); it never fails because the version is unmapped.
C4_DefaultFallbackForEveryVersion ==
    (/\ ComputedDone /\ arch = ArchitectureArm64
     /\ AtOrAboveMinimum(ParseTolerant(RequestedVersion))
     /\ RequestedVersion \notin Keys(findAllContainerdDockerMappings)) =>
        /\ Succeeded
        /\ result.u = DefaultFallbackUrlArm64
        /\ result.h = DefaultFallbackHashArm64

BelowMinimum(sv) == sv.ok /\ ~AtOrAboveMinimum(sv)

\* C5: every version string that parses below 1.3.4 fails with the
\* unsupported-legacy-version error, on every architecture.
C5_LegacyFloor ==
    (ComputedDone /\ BelowMinimum(ParseTolerant(RequestedVersion))) =>
        result.err = "unsupported legacy containerd version"

AtOrAbove138(sv) ==
    sv.Major > 1 \/ (sv.Major = 1 /\ (sv.Minor > 3 \/ (sv.Minor = 3 /\ sv.Patch >= 8)))

CurrentTemplateUrl(v) ==
    <<"https://github.com/containerd/containerd/releases/download/", "v">> \o v
        \o <<"/cri-containerd-cni-">> \o v \o <<"-linux-amd64.tar.gz">>

LegacyTemplateUrl(v) ==
    <<"https://storage.googleapis.com/cri-containerd-release/cri-containerd-">> \o v
        \o <<".linux-amd64.tar.gz">>

ExpectedHash == NODEUP_HASH

\* sha256sum ${file} | awk '{ print $1 }'   (empty when the file is missing)
sha256sum(content) ==
    CASE content = "correct"   -> ExpectedHash
      [] content = "partial"   -> "e3b0c44298fc1c149afbf4c8996fb92427ae41e4649b934ca495991b7852b855"
      [] content = "corrupted" -> "0000000000000000000000000000000000000000000000000000000000000bad"
      [] OTHER                 -> ""

\* faulty variant: the check only looks whether the file is there
validateHash_ExistsOnly(content, expected) == content # "absent"

\* validate-hash: TRUE when it returns 0
validateHash(content, expected) == sha256sum(content) = expected

\* the download strategies, in the order of the commands array
Commands ==
    <<"curl -f --compressed", "wget --compression=auto", "curl -f", "wget">>

\* what a mirror does: "bad" fails the transfer or serves other bytes, "good"
\* serves the expected bytes, "flaky" does any of these
UrlKinds == {"bad", "good", "flaky"}

CanFail(kind) == kind \in {"bad", "flaky"}

Served(kind) ==
    CASE kind = "bad"  -> {"corrupted"}
      [] kind = "good" -> {"correct"}
      [] OTHER         -> {"corrupted", "correct"}

Contents == {"absent", "partial", "corrupted", "correct"}

ResolverIdle ==
    /\ arch = ArchitectureAmd64
    /\ cluster = NoContainerdConfig
    /\ rpc = "ready"
    /\ called = ""
    /\ result = NoResult

FetchInit ==
    /\ ResolverIdle
    /\ BootIdle
    /\ file \in Contents
    /\ urls \in UNION {[1..n -> UrlKinds] : n \in 1..MaxUrls}
    /\ fpc = "idle"
    /\ ui = 1
    /\ ci = 1
    /\ entryFile = "absent"
    /\ lastValidate = "none"
    /\ transfers = << >>
    /\ sleeps = 0
    /\ passFails = 0
    /\ deletes = 0
    /\ source = 0
    /\ invocations = 0

\* download-or-bust is called (again) for the same target path
Invoke ==
    /\ fpc \in {"idle", "returned"}
    /\ invocations < MaxInvocations
    /\ invocations' = invocations + 1
    /\ entryFile' = file
    /\ fpc' = "check"
    /\ ui' = 1
    /\ ci' = 1
    /\ lastValidate' = "none"
    /\ transfers' = << >>
    /\ sleeps' = 0
    /\ passFails' = 0
    /\ deletes' = 0
    /\ source' = 0
    /\ UNCHANGED <<file, urls, rvars, bvars>>

\* faulty variant: an existing file is never trusted, it is always fetched again
CheckExisting_AlwaysRefetch ==
    /\ fpc = "check"
    /\ IF file # "absent"
       THEN /\ lastValidate' = "mismatch"
            /\ fpc' = "rmExisting"
       ELSE /\ fpc' = "attempt"
            /\ UNCHANGED lastValidate
    /\ UNCHANGED <<file, urls, ui, ci, entryFile, transfers, sleeps, passFails,
                   deletes, source, invocations, rvars, bvars>>

\* if [[ -f "${file}" ]]; then if ! validate-hash ...; else return; fi
CheckExisting ==
    /\ fpc = "check"
    /\ IF file # "absent"
       THEN /\ lastValidate' = IF validateHash(file, ExpectedHash) THEN "ok" ELSE "mismatch"
            /\ fpc' = IF validateHash(file, ExpectedHash) THEN "returned" ELSE "rmExisting"
       ELSE /\ fpc' = "attempt"
            /\ UNCHANGED lastValidate
    /\ UNCHANGED <<file, urls, ui, ci, entryFile, transfers, sleeps, passFails,
                   deletes, source, invocations, rvars, bvars>>

\* faulty variant: the mismatching file is left in place
RemoveExisting_Keep ==
    /\ fpc = "rmExisting"
    /\ fpc' = "attempt"
    /\ UNCHANGED <<file, deletes, urls, ui, ci, entryFile, lastValidate, transfers, sleeps,
                   passFails, source, invocations, rvars, bvars>>

\* rm -f "${file}" of the pre-existing file, then the retry loop
RemoveExisting ==
    /\ fpc = "rmExisting"
    /\ file' = "absent"
    /\ deletes' = deletes + 1
    /\ fpc' = "attempt"
    /\ UNCHANGED <<urls, ui, ci, entryFile, lastValidate, transfers, sleeps,
                   passFails, source, invocations, rvars, bvars>>

\* faulty variant: the backoff sleep follows each url instead of each full pass
NextAttempt_SleepPerUrl ==
    IF ci < Len(Commands)
    THEN fpc' = "attempt" /\ ci' = ci + 1 /\ ui' = ui
    ELSE fpc' = "sleep" /\ UNCHANGED <<ui, ci>>

\* faulty variant: a full failed pass ends the fetcher
NextAttempt_GiveUp ==
    IF ci < Len(Commands)
    THEN fpc' = "attempt" /\ ci' = ci + 1 /\ ui' = ui
    ELSE IF ui < Len(urls)
    THEN fpc' = "attempt" /\ ci' = 1 /\ ui' = ui + 1
    ELSE fpc' = "returned" /\ UNCHANGED <<ui, ci>>

\* faulty variant: the loops are swapped, each command is tried on every url in turn
NextAttempt_UrlsInner ==
    IF ui < Len(urls)
    THEN fpc' = "attempt" /\ ui' = ui + 1 /\ ci' = ci
    ELSE IF ci < Len(Commands)
    THEN fpc' = "attempt" /\ ui' = 1 /\ ci' = ci + 1
    ELSE fpc' = "sleep" /\ UNCHANGED <<ui, ci>>

\* the two for loops: the next command of this url, else the first command of the
\* next url, else the end of the pass
NextAttempt ==
    IF ci < Len(Commands)
    THEN fpc' = "attempt" /\ ci' = ci + 1 /\ ui' = ui
    ELSE IF ui < Len(urls)
    THEN fpc' = "attempt" /\ ci' = 1 /\ ui' = ui + 1
    ELSE fpc' = "sleep" /\ UNCHANGED <<ui, ci>>

\* faulty variant: a failed transfer removes the target before the next command
TransferFails_Cleanup ==
    /\ fpc = "attempt"
    /\ CanFail(urls[ui])
    /\ transfers' = Append(transfers, <<ui, ci>>)
    /\ file' = "absent"
    /\ source' = 0
    /\ deletes' = deletes + 1
    /\ passFails' = passFails + 1
    /\ NextAttempt
    /\ UNCHANGED <<urls, entryFile, lastValidate, sleeps, invocations, rvars, bvars>>

\* if ! (${cmd} "${url}"); then continue: the tool fails and leaves the target
\* as it was or with the bytes it wrote so far
TransferFails ==
    /\ fpc = "attempt"
    /\ CanFail(urls[ui])
    /\ transfers' = Append(transfers, <<ui, ci>>)
    /\ \E left \in {file, "partial"} :
          /\ file' = left
          /\ source' = IF left = file THEN source ELSE 0
    /\ passFails' = passFails + 1
    /\ NextAttempt
    /\ UNCHANGED <<urls, entryFile, lastValidate, sleeps, deletes, invocations, rvars, bvars>>

\* the tool exits 0 and the target holds what the mirror served
TransferSucceeds ==
    /\ fpc = "attempt"
    /\ transfers' = Append(transfers, <<ui, ci>>)
    /\ \E content \in Served(urls[ui]) : file' = content
    /\ source' = ui
    /\ fpc' = "validate"
    /\ UNCHANGED <<urls, ui, ci, entryFile, lastValidate, sleeps, passFails,
                   deletes, invocations, rvars, bvars>>

\* if ! validate-hash "${file}" "${hash}" of the downloaded file
ValidateDownload ==
    /\ fpc = "validate"
    /\ lastValidate' = IF validateHash(file, ExpectedHash) THEN "ok" ELSE "mismatch"
    /\ fpc' = IF validateHash(file, ExpectedHash) THEN "returned" ELSE "rmDownload"
    /\ UNCHANGED <<file, urls, ui, ci, entryFile, transfers, sleeps, passFails,
                   deletes, source, invocations, rvars, bvars>>

\* rm -f "${file}" of a download that failed validation, then the next command
RemoveDownload ==
    /\ fpc = "rmDownload"
    /\ file' = "absent"
    /\ deletes' = deletes + 1
    /\ source' = 0
    /\ passFails' = passFails + 1
    /\ NextAttempt
    /\ UNCHANGED <<urls, entryFile, lastValidate, transfers, sleeps, invocations, rvars, bvars>>

\* sleep 60, then the next pass of while true (the model follows MaxPasses sleeps)
Sleep ==
    /\ fpc = "sleep"
    /\ sleeps < MaxPasses
    /\ sleeps' = sleeps + 1
    /\ passFails' = 0
    /\ ui' = 1
    /\ ci' = 1
    /\ fpc' = "attempt"
    /\ UNCHANGED <<file, urls, entryFile, lastValidate, transfers, deletes, source,
                   invocations, rvars, bvars>>

\* the steps of a running download-or-bust
FetchStep ==
    \/ CheckExisting
    \/ RemoveExisting
    \/ TransferFails
    \/ TransferSucceeds
    \/ ValidateDownload
    \/ RemoveDownload
    \/ Sleep

FetchNext == Invoke \/ FetchStep

FetchSpec == FetchInit /\ [][FetchNext]_vars

\* the script runs on: a started download-or-bust always takes its next step
FetchLiveSpec == FetchInit /\ [][FetchNext]_vars /\ WF_vars(FetchStep)

(***************************************************************************)
(* Properties of the fetcher                                               *)
(***************************************************************************)
Mismatching == {"partial", "corrupted"}

\* C2: whenever download-or-bust has returned, the target file exists with the
\* expected hash and the last validate-hash performed on it matched.
C2_VerifiedExit ==
    fpc = "returned" =>
        /\ file # "absent"
        /\ sha256sum(file) = ExpectedHash
        /\ lastValidate = "ok"

\* C2 witness: a return after a corrupted file was removed and a download verified
C2_Witness ==
    /\ fpc = "returned" /\ entryFile = "corrupted"
    /\ file = "correct" /\ lastValidate = "ok" /\ Len(transfers) > 1

\* C6: entered with a file that has the expected hash, download-or-bust returns
\* without any transfer attempt, sleep or deletion and leaves the file as it
\* was, at every invocation.
C6_Idempotence ==
    (fpc # "idle" /\ entryFile = "correct") =>
        /\ fpc \in {"check", "returned"}
        /\ transfers = << >>
        /\ sleeps = 0
        /\ deletes = 0
        /\ file = "correct"

\* C6 witness: a second invocation on the verified file returned with no transfer
C6_Witness ==
    /\ invocations = MaxInvocations /\ fpc = "returned" /\ entryFile = "correct"
    /\ transfers = << >> /\ file = "correct"

\* C7: entered with a file whose hash differs, the file is deleted before the
\* first transfer attempt, the retry loop starts as it does for an absent file
\* (first url, first command, nothing slept), and download-or-bust returns
\* only with a downloaded copy that has the expected hash.
C7_CorruptionRecovery ==
    (fpc # "idle" /\ entryFile \in Mismatching) =>
        /\ fpc \notin {"check", "rmExisting"} => deletes >= 1
        /\ (fpc = "attempt" /\ transfers = << >>) =>
             /\ file = "absent" /\ deletes = 1
             /\ ui = 1 /\ ci = 1 /\ sleeps = 0 /\ passFails = 0
        /\ fpc = "returned" =>
             /\ file = "correct" /\ lastValidate = "ok"
             /\ transfers # << >> /\ source = transfers[Len(transfers)][1]

\* C7 witness: the retry loop about to make its first attempt after the deletion
C7_Witness ==
    /\ entryFile = "partial" /\ fpc = "attempt" /\ transfers = << >>
    /\ file = "absent" /\ deletes = 1

\* every command on url u, in order
RECURSIVE AttemptsOn(_, _)
AttemptsOn(u, c) ==
    IF c > Len(Commands) THEN << >> ELSE <<<<u, c>>>> \o AttemptsOn(u, c + 1)

BadBadGood == <<"bad", "bad", "good">>

MirrorFallbackDone ==
    /\ fpc = "returned"
    /\ file = "correct"
    /\ source = 3
    /\ sleeps = 0
    /\ transfers = AttemptsOn(1, 1) \o AttemptsOn(2, 1) \o <<<<3, 1>>>>

\* C8: with the url list [bad, bad, good], a download-or-bust that entered its
\* retry loop eventually returns with the file fetched from the third url, after
\* every command was attempted on the first and on the second url, with no sleep.
C8_MirrorFallback ==
    (urls = BadBadGood /\ fpc = "attempt") ~> MirrorFallbackDone

\* C8 witness: the return with the file of the third mirror
C8_Witness == urls = BadBadGood /\ MirrorFallbackDone /\ entryFile = "absent"

Running == fpc \notin {"idle", "returned"}

\* C9: the backoff sleep happens only after every (url, command) pair of the
\* pass failed, it is followed by a new pass from the first url and command,
\* however many passes came before, and a failed transfer or a hash mismatch
\* never makes download-or-bust return.
C9_UnboundedRetry ==
    [][ /\ (Running /\ sleeps' # sleeps) =>
              /\ fpc = "sleep"
              /\ passFails = Len(urls) * Len(Commands)
              /\ sleeps' = sleeps + 1
              /\ fpc' = "attempt" /\ ui' = 1 /\ ci' = 1 /\ passFails' = 0
        /\ (Running /\ fpc' = "sleep") =>
              /\ passFails' = Len(urls) * Len(Commands)
              /\ ui = Len(urls) /\ ci = Len(Commands)
        /\ (Running /\ passFails' > passFails) => fpc' \in {"attempt", "sleep"}
        /\ (fpc \in {"check", "validate"} /\ lastValidate' = "mismatch") =>
              fpc' \in {"rmExisting", "rmDownload"}
        /\ (Running /\ fpc' = "returned") => lastValidate' = "ok"
      ]_vars

\* C9 witness: a pass started after MaxPasses sleeps, every pass before it failed
C9_Witness ==
    /\ sleeps = MaxPasses /\ fpc = "attempt" /\ ui = 1 /\ ci = 1
    /\ Len(transfers) >= MaxPasses * Len(urls) * Len(Commands)

(***************************************************************************)
(* Further properties of the resolver                                      *)
(***************************************************************************)
NativeHashes == {e[2] : e \in findAllContainerdHashesAmd64}

ContainerdUrlHeads == {Head(containerdVersionUrlAmd64), Head(containerdLegacyUrlAmd64)}

DockerUrlAmd64Prefix == "https://download.docker.com/linux/static/stable/x86_64/docker-"

DockerUrl(a, dv) ==
    <<IF a = ArchitectureAmd64 THEN DockerUrlAmd64Prefix ELSE DockerUrlArm64Prefix>>
        \o dv \o <<".tgz">>

\* another key of the table parses to the same version as the requested string
SameVersionKeys(table) ==
    {k \in Keys(table) :
        /\ k # RequestedVersion
        /\ ParseTolerant(RequestedVersion).ok
        /\ ParseTolerant(k) = ParseTolerant(RequestedVersion)}

KnownArchitectures == {ArchitectureAmd64, ArchitectureArm64}

\* C12: for an architecture other than amd64 and arm64 both entry points
\* return an error and no URL or hash, whatever the version and the override.
C12_UnknownArchitecture ==
    (rpc = "done" /\ arch \notin KnownArchitectures) =>
        /\ result.err # ""
        /\ result.u = Empty
        /\ result.h = Empty

\* C12 witness: a native version and complete overrides, refused for riscv64
C12_Witness ==
    /\ rpc = "done" /\ called = "findContainerdAsset" /\ arch = "riscv64"
    /\ RequestedVersion = V("1", "4", "9")
    /\ cluster.Packages.set
    /\ cluster.Packages.UrlArm64 = StringPtr(OverrideUrlArm64)
    /\ cluster.Packages.HashArm64 = StringPtr(OverrideHashArm64)
    /\ cluster.Packages.UrlAmd64 = StringPtr(OverrideUrlAmd64)
    /\ cluster.Packages.HashAmd64 = StringPtr(OverrideHashAmd64)
    /\ result.err = "unknown arch"

HexDigits ==
    {"0", "1", "2", "3", "4", "5", "6", "7", "8", "9", "a", "b", "c", "d", "e", "f"}

\* h is one hash of 64 lowercase hexadecimal characters
IsSha256Hex(h) ==
    /\ Len(h) = 1
    /\ Len(h[1]) = 64
    /\ \A i \in 1..64 : SubSeq(h[1], i, i) \in HexDigits

\* C13: every successful resolution, on every path, returns a non-empty URL
\* and one hash of 64 lowercase hexadecimal characters; a resolution that would
\* give an empty URL or hash is an error instead.
C13_DescriptorNonEmpty ==
    (rpc = "done" /\ Succeeded) =>
        /\ result.u # Empty
        /\ IsSha256Hex(result.h)


\* C14: with no override, for every architecture and every version string that
\* ParseTolerant rejects, resolution fails with "unable to parse version string",
\* and the parse is the first thing the resolution does, before any table lookup.
C14_InvalidVersion ==
    (ComputedDone /\ ~ParseTolerant(RequestedVersion).ok) =>
        /\ result.err = "unable to parse version string"
        /\ result.calls # << >>
        /\ Head(result.calls) = "semver.ParseTolerant"

\* the cluster spec with the override package taken away
WithoutOverride == [cluster EXCEPT !.Packages = NoPackages]

\* C18: when the override package is absent, or for the requested architecture
\* lacks the URL or the hash or has an empty one, or is complete only for the
\* other architecture, findContainerdAsset returns exactly what it returns for
\* the same architecture and version with no override package.
C18_IncompleteOverrideIgnored ==
    (rpc = "done" /\ called = "findContainerdAsset" /\ cluster.set /\ ~OverrideComplete) =>
        result = findContainerdAsset(WithoutOverride, arch)

\* the docker versions the containerd versions map to
DockerVersions == {e[2] : e \in findAllContainerdDockerMappings}

DockerHashes(a) ==
    IF a = ArchitectureAmd64 THEN findAllDockerHashesAmd64 ELSE findAllDockerHashesArm64

\* the URL and the hash are the native containerd artifact of version v for amd64
NativePair(v, u, h) ==
    /\ u \in {CurrentTemplateUrl(v), LegacyTemplateUrl(v)}
    /\ <<v, h>> \in findAllContainerdHashesAmd64

\* the URL and the hash are the docker artifact of version dv for architecture a
DockerPair(a, dv, u, h) ==
    /\ u = DockerUrl(a, dv)
    /\ <<dv, h>> \in DockerHashes(a)

\* C19: whenever computed resolution succeeds, the URL and the hash it returns
\* name one artifact: the native containerd build of exactly the requested
\* version for amd64, or the docker build of one docker version for the
\* requested architecture.
C19_UrlHashAgreement ==
    (ComputedDone /\ Succeeded) =>
        \/ /\ arch = ArchitectureAmd64
           /\ NativePair(RequestedVersion, result.u, result.h)
        \/ /\ arch \in {ArchitectureAmd64, ArchitectureArm64}
           /\ \E dv \in DockerVersions : DockerPair(arch, dv, result.u, result.h)

\* arm64 resolved a version of the native table that has its own docker mapping,
\* other than the fallback's
C19_Witness ==
    /\ ComputedDone /\ Succeeded
    /\ arch = ArchitectureArm64
    /\ InBothTables
    /\ RequestedVersion # containerdFallbackVersion
    /\ \E dv \in DockerVersions : DockerPair(arch, dv, result.u, result.h)

(***************************************************************************)
(* download-release of the node bootstrap script: the host architecture    *)
(* selects NODEUP_URL and NODEUP_HASH, download-or-bust fetches nodeup,     *)
(* then nodeup is made executable and run.                                 *)
(***************************************************************************)
\* a shell pattern "prefix*"
HasPrefix(s, prefix) ==
    /\ Len(s) >= Len(prefix)
    /\ SubSeq(s, 1, Len(prefix)) = prefix

\* x86_64*|i?86_64*|amd64*
MatchesAmd64(m) ==
    \/ HasPrefix(m, "x86_64")
    \/ Len(m) >= 7 /\ SubSeq(m, 1, 1) = "i" /\ SubSeq(m, 3, 7) = "86_64"
    \/ HasPrefix(m, "amd64")

\* aarch64*|arm64*
MatchesArm64(m) ==
    \/ HasPrefix(m, "aarch64")
    \/ HasPrefix(m, "arm64")

\* machine names a host may report
Machines ==
    {"x86_64", "i686_64", "amd64", "aarch64", "aarch64_be", "arm64",
     "i686", "armv7l", "riscv64", "x86", "ppc64le"}

BootInit ==
    /\ ResolverIdle
    /\ uname \in Machines
    /\ boot = "start"
    /\ NODEUP_URL = << >>
    /\ NODEUP_HASH = ""
    /\ executable = FALSE
    /\ file \in Contents
    /\ urls \in [1..Len(NODEUP_URL_AMD64) -> UrlKinds]
    /\ fpc = "idle"
    /\ ui = 1
    /\ ci = 1
    /\ entryFile = "absent"
    /\ lastValidate = "none"
    /\ transfers = << >>
    /\ sleeps = 0
    /\ passFails = 0
    /\ deletes = 0
    /\ source = 0
    /\ invocations = 0

\* case "$(uname -m)" in ... esac: the first matching arm sets the two variables
SelectArch ==
    /\ boot = "start"
    /\ \/ MatchesAmd64(uname)
       \/ MatchesArm64(uname)
    /\ IF MatchesAmd64(uname)
       THEN NODEUP_URL' = NODEUP_URL_AMD64 /\ NODEUP_HASH' = NODEUP_HASH_AMD64
       ELSE NODEUP_URL' = NODEUP_URL_ARM64 /\ NODEUP_HASH' = NODEUP_HASH_ARM64
    /\ boot' = "download"
    /\ UNCHANGED <<uname, executable, rvars, fvars>>

\* the arm *): echo "Unsupported host arch" and exit 1
ExitUnsupported ==
    /\ boot = "start"
    /\ ~MatchesAmd64(uname)
    /\ ~MatchesArm64(uname)
    /\ boot' = "exited"
    /\ UNCHANGED <<uname, NODEUP_URL, NODEUP_HASH, executable, rvars, fvars>>

\* download-or-bust nodeup "${NODEUP_HASH}" "${NODEUP_URL}"
CallDownloadOrBust ==
    /\ boot = "download"
    /\ fpc = "idle"
    /\ Len(urls) = Len(NODEUP_URL)   \* split-commas: one mirror for each url of the list
    /\ Invoke

\* faulty variant: chmod does not wait for download-or-bust to return
Chmod_NoWait ==
    /\ boot = "download"
    /\ fpc # "idle"
    /\ executable' = (file # "absent")
    /\ boot' = IF file # "absent" THEN "chmod" ELSE "exited"
    /\ UNCHANGED <<uname, NODEUP_URL, NODEUP_HASH, rvars, fvars>>

\* chmod +x nodeup, the statement after the call of download-or-bust (under
\* errexit a chmod of a missing file ends the script)
Chmod ==
    /\ boot = "download"
    /\ fpc = "returned"
    /\ executable' = (file # "absent")
    /\ boot' = IF file # "absent" THEN "chmod" ELSE "exited"
    /\ UNCHANGED <<uname, NODEUP_URL, NODEUP_HASH, rvars, fvars>>

\* ( cd ${INSTALL_DIR}/bin; ./nodeup --install-systemd-unit ... )
RunNodeup ==
    /\ boot = "chmod"
    /\ executable
    /\ boot' = "nodeup"
    /\ UNCHANGED <<uname, NODEUP_URL, NODEUP_HASH, executable, rvars, fvars>>

BootNext ==
    \/ SelectArch
    \/ ExitUnsupported
    \/ CallDownloadOrBust
    \/ FetchStep
    \/ Chmod
    \/ RunNodeup

BootSpec == BootInit /\ [][BootNext]_vars

\* the host architecture is one the script has variables for
SupportedHost == MatchesAmd64(uname) \/ MatchesArm64(uname)

\* C15: chmod and the execution of nodeup happen only after download-or-bust
\* returned, that is with a nodeup file that passed validate-hash against the
\* hash of the host architecture; on an unsupported host the script exits without
\* a call of download-or-bust, a transfer or an execution.
C15_BootGating ==
    /\ (boot \in {"chmod", "nodeup"} \/ executable) =>
          /\ fpc = "returned"
          /\ lastValidate = "ok"
          /\ sha256sum(file) = NODEUP_HASH
          /\ NODEUP_HASH = (IF MatchesAmd64(uname) THEN NODEUP_HASH_AMD64 ELSE NODEUP_HASH_ARM64)
    /\ ~SupportedHost =>
          /\ boot \in {"start", "exited"}
          /\ invocations = 0
          /\ transfers = << >>
          /\ fpc = "idle"
          /\ ~executable

\* nodeup runs on a host after a download from a mirror
C15_Witness ==
    /\ boot = "nodeup"
    /\ transfers # << >>
    /\ MatchesArm64(uname)

\* an unsupported host has left the script
C15_WitnessUnsupported == boot = "exited" /\ ~SupportedHost

(***************************************************************************)
(* Further properties of the fetcher                                       *)
(***************************************************************************)
Contains(s, sub) ==
    \E i \in 1..(Len(s) - Len(sub) + 1) : SubSeq(s, i, i + Len(sub) - 1) = sub

\* the command line asks the tool for a compressed transfer
UsesCompression(cmd) == Contains(cmd, "--compress")

IsCurl(cmd) == HasPrefix(cmd, "curl")

\* attempts of one full pass over the url list
PassLength == Len(urls) * Len(Commands)

\* the <<url index, command index>> of the k-th attempt of an invocation
AttemptAt(k) ==
    LET inPass == (k - 1) % PassLength
    IN <<(inPass \div Len(Commands)) + 1, (inPass % Len(Commands)) + 1>>

\* C16: the attempts of a pass run in (url index, command index) order, the
\* commands being compressed curl, compressed wget, plain curl, plain wget; a url
\* is attempted only after all four commands were tried on every earlier url of the
\* pass, and an attempt that did not end the fetcher is followed by the next command
\* of the same url.
C16_AttemptOrder ==
    /\ Len(Commands) = 4
    /\ UsesCompression(Commands[1]) /\ IsCurl(Commands[1])
    /\ UsesCompression(Commands[2]) /\ ~IsCurl(Commands[2])
    /\ ~UsesCompression(Commands[3]) /\ IsCurl(Commands[3])
    /\ ~UsesCompression(Commands[4]) /\ ~IsCurl(Commands[4])
    /\ \A k \in 1..Len(transfers) : transfers[k] = AttemptAt(k)
    /\ fpc = "attempt" => <<ui, ci>> = AttemptAt(Len(transfers) + 1)
    /\ \A k \in 1..Len(transfers) :
          \A u \in 1..(transfers[k][1] - 1) :
             \A c \in 1..Len(Commands) :
                \E j \in 1..(k - 1) :
                   /\ transfers[j] = <<u, c>>
                   /\ k - j < PassLength

\* the second url is being tried after the four commands failed on the first
C16_Witness ==
    /\ Len(urls) >= 2
    /\ Len(transfers) > PassLength
    /\ transfers[Len(transfers)][1] = 2
    /\ transfers[Len(transfers)][2] = 2

\* C17: the fetcher removes the target exactly in the step that follows a failed
\* validate-hash (of the file found at entry or of a completed download), before
\* any further attempt; a failed transfer removes nothing and goes on to the next
\* command, and a file that passed validate-hash is never removed.
C17_DeleteOnlyOnMismatch ==
    [][ /\ (deletes' > deletes) =>
              /\ fpc \in {"rmExisting", "rmDownload"}
              /\ lastValidate = "mismatch"
              /\ deletes' = deletes + 1
              /\ file' = "absent"
        /\ (fpc \in {"check", "validate"} /\ lastValidate' = "mismatch") =>
              /\ fpc' = (IF fpc = "check" THEN "rmExisting" ELSE "rmDownload")
              /\ file' = file
        /\ (fpc \in {"rmExisting", "rmDownload"}) =>
              /\ deletes' = deletes + 1
              /\ file' = "absent"
              /\ transfers' = transfers
              /\ fpc' \in {"attempt", "sleep"}
        /\ (fpc = "attempt" /\ passFails' > passFails) =>
              /\ deletes' = deletes
              /\ file' \in {file, "partial"}
              /\ fpc' \in {"attempt", "sleep"}
              /\ fpc' = "attempt" => <<ui', ci'>> = AttemptAt(Len(transfers') + 1)
        /\ (lastValidate = "ok" \/ lastValidate' = "ok") =>
              /\ file' = file
              /\ deletes' <= deletes
      ]_vars

\* a download failed validation and was removed, and a later transfer failed
\* leaving its partial bytes
C17_Witness ==
    /\ deletes >= 1
    /\ entryFile = "absent"
    /\ file = "partial"
    /\ fpc = "attempt"
=============================================================================
